---- MODULE Spec2Model ----
(***************************************************************************)
(* Finance File Downloader (src/app.py): the "Start Processing" handler.   *)
(* A CSV manifest is read, every present URL of every row is downloaded    *)
(* into <temp_dir>/RID_<id>/<year>/<category>/, the tree is written to     *)
(* finance_output.zip, and the zip is offered whole or cut into parts of   *)
(* MAX_SIZE bytes.                                                         *)
(*                                                                         *)
(* Paths are sequences of components (os.path.join appends one), file      *)
(* contents are sequences of bytes.  In the zip file a negative number -n  *)
(* stands for a run of n bytes of container structure (headers, central    *)
(* directory), whose values the source does not determine.                 *)
(***************************************************************************)
EXTENDS Integers, Sequences, FiniteSets, TLC

VARIABLES
    uploaded_file,  \* the file_uploader widget's value (line 63)
    pc,             \* position of the script
    df,             \* the data frame, columns lower-cased (lines 71-72)
    total,          \* len(df) (line 82)
    idx,            \* rows of df.iterrows() already taken (line 84)
    dirs,           \* directories that exist under temp_dir
    files,          \* regular files under temp_dir: path -> content
    messages,       \* st.error / st.warning / st.info / st.success output
    events,         \* requests.get calls and progress.progress calls, in order
    zip_entries,    \* entries written by zipf.write (line 123)
    zip_size,       \* os.path.getsize(zip_path) (line 125)
    MAX_SIZE,       \* the size ceiling in bytes (line 115)
    part_num,       \* line 133, 144
    pos,            \* read offset of the handle f of line 134
    buttons         \* st.download_button calls: label, file_name, data

vars == <<uploaded_file, pc, df, total, idx, dirs, files, messages, events,
          zip_entries, zip_size, MAX_SIZE, part_num, pos, buttons>>

---------------------------------------------------------------------------
(* Bounds of the explored inputs *)

MaxRows == 2
MaxHeaderRows == 1
MaxArchiveLen == 5
MaxCeiling == 3

---------------------------------------------------------------------------
(* Program constants *)

MAX_SIZE_MB == 23

MAX_SIZE_BYTES == MAX_SIZE_MB * 1024 * 1024

required_cols ==
    <<"restaurant_id", "invoice_url", "payment_advice_url", "annexure_url", "dt">>

Categories == <<"invoice_url", "payment_advice_url", "annexure_url">>

NaN == "NaN"

---------------------------------------------------------------------------
(* Generic helpers *)

Range(s) == {s[i] : i \in DOMAIN s}

RECURSIVE Listings(_)
\* Every order in which os.scandir may list the set S (the order is defined
\* by the file system, not by the program).
Listings(S) ==
    IF S = {} THEN {<<>>}
    ELSE UNION {{<<x>> \o rest : rest \in Listings(S \ {x})} : x \in S}

RECURSIVE Flatten(_)
Flatten(ss) == IF ss = <<>> THEN <<>> ELSE Head(ss) \o Flatten(Tail(ss))

RECURSIVE SumSeq(_)
SumSeq(s) == IF s = <<>> THEN 0 ELSE Head(s) + SumSeq(Tail(s))

---------------------------------------------------------------------------
(* Strings, dates, paths *)

\* str.lower on the column names that occur in the explored manifests.
Lower(s) ==
    CASE s \in {"RESTAURANT_ID", "Restaurant_Id", "restaurant_id"} -> "restaurant_id"
      [] s \in {"INVOICE_URL", "Invoice_Url", "invoice_url"} -> "invoice_url"
      [] s \in {"PAYMENT_ADVICE_URL", "Payment_Advice_Url", "payment_advice_url"}
            -> "payment_advice_url"
      [] s \in {"ANNEXURE_URL", "Annexure_Url", "annexure_url"} -> "annexure_url"
      [] s \in {"DT", "Dt", "dt"} -> "dt"
      [] s \in {"CITY", "city"} -> "city"
      [] OTHER -> s

\* pd.notna
notna(cell) == cell # NaN

IsLeap(y) == (y % 4 = 0 /\ y % 100 # 0) \/ y % 400 = 0

DaysIn(y, m) ==
    CASE m \in {1, 3, 5, 7, 8, 10, 12} -> 31
      [] m \in {4, 6, 9, 11} -> 30
      [] m = 2 -> IF IsLeap(y) THEN 29 ELSE 28
      [] OTHER -> 0

\* pd.to_datetime of a dt cell.  A cell is the text y-m-d, or missing (na).
\* Missing gives NaT; text that is no calendar date raises.
to_datetime(cell) ==
    IF cell.na THEN [raises |-> FALSE, nat |-> TRUE, year |-> 0, month |-> 0, day |-> 0]
    ELSE IF cell.m \in 1..12 /\ cell.d \in 1..DaysIn(cell.y, cell.m)
         THEN [raises |-> FALSE, nat |-> FALSE,
               year |-> cell.y, month |-> cell.m, day |-> cell.d]
         ELSE [raises |-> TRUE, nat |-> FALSE, year |-> 0, month |-> 0, day |-> 0]

\* Month and day without the leading zero.
Pad2_unpadded(n) == ToString(n)

Pad2(n) == IF n < 10 THEN "0" \o ToString(n) ELSE ToString(n)

Pad4(n) ==
    IF n < 10 THEN "000" \o ToString(n)
    ELSE IF n < 100 THEN "00" \o ToString(n)
    ELSE IF n < 1000 THEN "0" \o ToString(n)
    ELSE ToString(n)

\* dt.strftime("%Y_%m_%d")
strftime_Y_m_d(dt) == Pad4(dt.year) \o "_" \o Pad2(dt.month) \o "_" \o Pad2(dt.day)

\* str(dt.year); NaT.year is nan
str_year(dt) == IF dt.nat THEN "nan" ELSE ToString(dt.year)

\* os.path.join(a, b)
path_join(a, b) == Append(a, b)

Parent(p) == SubSeq(p, 1, Len(p) - 1)

\* os.path.relpath(p, start) for p below start
relpath(p, start) == SubSeq(p, Len(start) + 1, Len(p))

RECURSIVE PathText(_)
\* a relative path as text, components separated by "/"
PathText(p) ==
    IF Len(p) = 0 THEN ""
    ELSE IF Len(p) = 1 THEN p[1]
    ELSE p[1] \o "/" \o PathText(Tail(p))

\* tempfile.mkdtemp()
temp_dir == <<"tmp">>

\* os.makedirs(folder, exist_ok=True): the folder and its missing ancestors
makedirs(ds, folder) == ds \cup {SubSeq(folder, 1, k) : k \in 1..Len(folder)}

---------------------------------------------------------------------------
(* The remote side: what requests.get(url, ...) gives for each explored URL. *)
(* raises: the call itself raises (no connection).  chunks: the body as      *)
(* iter_content yields it.  breaks_after: the number of chunks yielded       *)
(* before the transfer raises, -1 when the body arrives whole.               *)

UrlOkA == "https://files/ok_a"
UrlOkB == "https://files/ok_b"
Url404 == "https://files/gone"
UrlUnreachable == "https://down/doc"
UrlCut == "https://files/cut"

Urls == {UrlOkA, UrlOkB, Url404, UrlUnreachable, UrlCut}

Server(url) ==
    CASE url = UrlOkA ->
            [raises |-> FALSE, status |-> 200, chunks |-> <<<<11>>, <<12>>>>, breaks_after |-> -1]
      [] url = UrlOkB ->
            [raises |-> FALSE, status |-> 200, chunks |-> <<<<21>>>>, breaks_after |-> -1]
      [] url = Url404 ->
            [raises |-> FALSE, status |-> 404, chunks |-> <<>>, breaks_after |-> -1]
      [] url = UrlCut ->
            [raises |-> FALSE, status |-> 200, chunks |-> <<<<31>>, <<32>>>>, breaks_after |-> 1]
      [] OTHER ->
            [raises |-> TRUE, status |-> 0, chunks |-> <<>>, breaks_after |-> -1]

\* The retrieval of url ends with download_file returning True.
Succeeds(url) ==
    LET r == Server(url) IN ~r.raises /\ r.status = 200 /\ r.breaks_after = -1

---------------------------------------------------------------------------
(* The explored manifests *)

DtCell(y, m, d) == [na |-> FALSE, y |-> y, m |-> m, d |-> d]
DtMissing == [na |-> TRUE, y |-> 0, m |-> 0, d |-> 0]

UrlCells == Urls \cup {NaN}

\* URL cells of a row with one document at most.
SingleTriples ==
    {t \in [Range(Categories) -> UrlCells] :
        Cardinality({c \in Range(Categories) : notna(t[c])}) <= 1}

\* URL cells of a few rows with several documents.
MixedTriples ==
    { [invoice_url |-> UrlOkA, payment_advice_url |-> NaN, annexure_url |-> UrlUnreachable],
      [invoice_url |-> UrlOkA, payment_advice_url |-> UrlOkB, annexure_url |-> UrlOkA],
      [invoice_url |-> UrlCut, payment_advice_url |-> Url404, annexure_url |-> UrlOkB],
      [invoice_url |-> Url404, payment_advice_url |-> UrlCut, annexure_url |-> NaN] }

MkRow(rid, dt, t) ==
    [restaurant_id |-> rid, invoice_url |-> t.invoice_url,
     payment_advice_url |-> t.payment_advice_url,
     annexure_url |-> t.annexure_url, dt |-> dt]

NoUrls == [c \in Range(Categories) |-> NaN]

DatedRows ==
    {MkRow(42, DtCell(2024, 3, 1), t) : t \in SingleTriples \cup MixedTriples}
    \cup {MkRow(7, DtCell(2023, 12, 25), t) : t \in MixedTriples \cup {NoUrls}}

\* Rows whose dt is no calendar date, or is missing.
UndatedRows ==
    { MkRow(42, DtCell(2024, 2, 30),
            [invoice_url |-> UrlOkA, payment_advice_url |-> UrlOkA, annexure_url |-> UrlOkA]),
      MkRow(7, DtMissing,
            [invoice_url |-> UrlOkA, payment_advice_url |-> NaN, annexure_url |-> NaN]) }

RowSpace == DatedRows \cup UndatedRows

Manifests(n) == UNION {[1..k -> RowSpace] : k \in 0..n}

\* Column names as the file spells them: canonical field -> header text.
HeaderUpper ==
    [restaurant_id |-> "RESTAURANT_ID", invoice_url |-> "INVOICE_URL",
     payment_advice_url |-> "PAYMENT_ADVICE_URL", annexure_url |-> "ANNEXURE_URL",
     dt |-> "DT"]

HeaderLower == [c \in Range(required_cols) |-> c]

HeaderMixed ==
    [restaurant_id |-> "Restaurant_Id", invoice_url |-> "INVOICE_URL",
     payment_advice_url |-> "payment_advice_url", annexure_url |-> "Annexure_Url",
     dt |-> "Dt"]

Without(h, cols) == [c \in (DOMAIN h) \ cols |-> h[c]]

OtherHeaders ==
    {HeaderLower, HeaderMixed}
    \cup {Without(HeaderUpper, {c}) : c \in Range(required_cols)}
    \cup {Without(HeaderLower, {"invoice_url", "dt"}),
          Without(HeaderMixed, {"restaurant_id", "annexure_url"})}

\* The CSV file with header h and the given rows, plus a column the program
\* does not use.
CsvFile(h, rows) ==
    [present |-> TRUE,
     columns |-> {h[c] : c \in DOMAIN h} \cup {"CITY"},
     rows |-> [i \in DOMAIN rows |->
                 [name \in {h[c] : c \in DOMAIN h} \cup {"CITY"} |->
                    IF name = "CITY" THEN "Pune"
                    ELSE rows[i][CHOOSE c \in DOMAIN h : h[c] = name]]]]

NoUpload == [present |-> FALSE, columns |-> {}, rows |-> <<>>]

\* No file, or a file of up to n rows under the header of the application's
\* description, or a file of up to k rows under another header.
Uploads(n, k) ==
    {NoUpload}
    \cup {CsvFile(HeaderUpper, m) : m \in Manifests(n)}
    \cup {CsvFile(h, m) : h \in OtherHeaders, m \in Manifests(k)}

---------------------------------------------------------------------------
(* download_file (lines 39-58) *)

Msg(level, text) == [level |-> level, text |-> text]

GetEvent(url, path) == [kind |-> "get", url |-> url, path |-> path, num |-> 0, den |-> 0]

ProgressEvent(v) == [kind |-> "progress", url |-> "", path |-> <<>>, num |-> v[1], den |-> v[2]]

\* An open that keeps what an existing file holds (mode "ab").
open_ab(fs, path) == IF path \in DOMAIN fs THEN fs ELSE (path :> <<>>) @@ fs

\* open(file_path, "wb"): the file exists and is empty
open_wb(fs, path) == (path :> <<>>) @@ fs

\* f.write(chunk) for each chunk of the sequence
write_chunks(fs, path, chunks) == [fs EXCEPT ![path] = @ \o Flatten(chunks)]

\* st is [files, messages, events]; the result adds ok, the return value.
download_file(st, url, folder, file_name) ==
    LET r == Server(url)
        file_path == path_join(folder, file_name)
        ev == Append(st.events, GetEvent(url, file_path))
    IN  IF r.raises
        THEN [files |-> st.files,
              messages |-> Append(st.messages,
                  Msg("error", "Error downloading " \o file_name \o ": no connection")),
              events |-> ev, ok |-> FALSE]
        ELSE IF r.status = 200
        THEN LET opened == open_wb(st.files, file_path)
                 got == IF r.breaks_after = -1 THEN r.chunks
                        ELSE SubSeq(r.chunks, 1, r.breaks_after)
                 written == write_chunks(opened, file_path, got)
             IN  IF r.breaks_after = -1
                 THEN [files |-> written, messages |-> st.messages,
                       events |-> ev, ok |-> TRUE]
                 ELSE [files |-> written,
                       messages |-> Append(st.messages,
                           Msg("error", "Error downloading " \o file_name \o ": broken transfer")),
                       events |-> ev, ok |-> FALSE]
        ELSE [files |-> st.files,
              messages |-> Append(st.messages,
                  Msg("warning", "Failed to download " \o file_name
                                 \o " - Status " \o ToString(r.status))),
              events |-> ev, ok |-> FALSE]

---------------------------------------------------------------------------
(* The row loop (lines 84-109) *)

\* str(row["restaurant_id"])
str_rid(row) == ToString(row.restaurant_id)

rid_folder(row) == path_join(temp_dir, "RID_" \o str_rid(row))

year_folder(row, dt) == path_join(rid_folder(row), str_year(dt))

inv_folder(row, dt) == path_join(year_folder(row, dt), "Invoices")

pa_folder(row, dt) == path_join(year_folder(row, dt), "Payment_Advices")

ann_folder(row, dt) == path_join(year_folder(row, dt), "Annexures")

inv_name(date_str) == "Invoice_" \o date_str \o ".pdf"

pa_name(date_str) == "Payment_Advice_" \o date_str \o ".pdf"

ann_name(date_str) == "Annexure_" \o date_str \o ".xlsx"

\* lines 97-98
row_makedirs(ds, row, dt) ==
    makedirs(makedirs(makedirs(ds, inv_folder(row, dt)), pa_folder(row, dt)),
             ann_folder(row, dt))

\* lines 102-107: the three guarded downloads, in order
row_downloads(st, row, dt) ==
    LET date_str == strftime_Y_m_d(dt)
        s0 == [files |-> st.files, messages |-> st.messages, events |-> st.events, ok |-> TRUE]
        s1 == IF notna(row.invoice_url)
              THEN download_file(s0, row.invoice_url, inv_folder(row, dt), inv_name(date_str))
              ELSE s0
        s2 == IF notna(row.payment_advice_url)
              THEN download_file(s1, row.payment_advice_url, pa_folder(row, dt), pa_name(date_str))
              ELSE s1
        s3 == IF notna(row.annexure_url)
              THEN download_file(s2, row.annexure_url, ann_folder(row, dt), ann_name(date_str))
              ELSE s2
    IN  s3

\* The fraction of line 109 without the + 1.
progress_value_from_zero(i, tot) == <<i, tot>>

\* line 109: (idx + 1) / total, kept as numerator and denominator
progress_value(i, tot) == <<i + 1, tot>>

\* lines 109 after 102-107
row_events(st, row, dt, i, tot) ==
    LET done == row_downloads(st, row, dt)
    IN  [done EXCEPT !.events = Append(@, ProgressEvent(progress_value(i, tot)))]

HasColumns(row) == \A c \in Range(required_cols) : c \in DOMAIN row

---------------------------------------------------------------------------
(* Start Processing: lines 65-82 *)

\* pd.read_csv and df.columns.str.lower()
read_csv_lower(upload) ==
    [i \in DOMAIN upload.rows |->
        [c \in {Lower(h) : h \in upload.columns} |->
            upload.rows[i][CHOOSE h \in upload.columns : Lower(h) = c]]]

df_columns(upload) == {Lower(h) : h \in upload.columns}

\* The check of lines 75-78 with dt left out of required_cols.
MissingCols_without_dt(cols) ==
    SelectSeq(SubSeq(required_cols, 1, 4), LAMBDA c : c \notin cols)

\* lines 75-78: the required columns the frame lacks, in required_cols order
MissingCols(cols) == SelectSeq(required_cols, LAMBDA c : c \notin cols)

Init ==
    /\ uploaded_file \in Uploads(MaxRows, MaxHeaderRows)
    /\ pc = "idle"
    /\ df = <<>>
    /\ total = 0
    /\ idx = 0
    /\ dirs = {}
    /\ files = <<>>
    /\ messages = <<>>
    /\ events = <<>>
    /\ zip_entries = <<>>
    /\ zip_size = 0
    /\ MAX_SIZE = MAX_SIZE_BYTES
    /\ part_num = 0
    /\ pos = 0
    /\ buttons = <<>>

\* lines 66-68
StartNoUpload ==
    /\ pc = "idle"
    /\ ~uploaded_file.present
    /\ messages' = Append(messages, Msg("error", "Please upload a CSV file."))
    /\ pc' = "stopped"
    /\ UNCHANGED <<uploaded_file, df, total, idx, dirs, files, events, zip_entries,
                   zip_size, MAX_SIZE, part_num, pos, buttons>>

\* lines 71-78 with a required column missing
StartMissingColumn ==
    /\ pc = "idle"
    /\ uploaded_file.present
    /\ MissingCols(df_columns(uploaded_file)) # <<>>
    /\ df' = read_csv_lower(uploaded_file)
    /\ messages' = Append(messages,
          Msg("error", "CSV is missing required column: "
                       \o Head(MissingCols(df_columns(uploaded_file)))))
    /\ pc' = "stopped"
    /\ UNCHANGED <<uploaded_file, total, idx, dirs, files, events, zip_entries,
                   zip_size, MAX_SIZE, part_num, pos, buttons>>

\* lines 71-82 with every required column present
StartRun ==
    /\ pc = "idle"
    /\ uploaded_file.present
    /\ MissingCols(df_columns(uploaded_file)) = <<>>
    /\ df' = read_csv_lower(uploaded_file)
    /\ dirs' = {temp_dir}
    /\ total' = Len(read_csv_lower(uploaded_file))
    /\ idx' = 0
    /\ pc' = "rows"
    /\ UNCHANGED <<uploaded_file, files, messages, events, zip_entries, zip_size,
                   MAX_SIZE, part_num, pos, buttons>>

\* lines 85-89 raise (KeyError on a column the frame lacks, or a dt that
\* is no date): the script ends with the exception
RowRaises ==
    /\ pc = "rows"
    /\ idx < total
    /\ ~HasColumns(df[idx + 1]) \/ to_datetime(df[idx + 1].dt).raises
    /\ pc' = "crashed"
    /\ UNCHANGED <<uploaded_file, df, total, idx, dirs, files, messages, events,
                   zip_entries, zip_size, MAX_SIZE, part_num, pos, buttons>>

\* dt is NaT: the folders are made (lines 91-98), then line 100 raises
RowDateNaT ==
    /\ pc = "rows"
    /\ idx < total
    /\ HasColumns(df[idx + 1])
    /\ ~to_datetime(df[idx + 1].dt).raises
    /\ to_datetime(df[idx + 1].dt).nat
    /\ dirs' = row_makedirs(dirs, df[idx + 1], to_datetime(df[idx + 1].dt))
    /\ pc' = "crashed"
    /\ UNCHANGED <<uploaded_file, df, total, idx, files, messages, events,
                   zip_entries, zip_size, MAX_SIZE, part_num, pos, buttons>>

\* one iteration of the loop, lines 85-109
ProcessRow ==
    /\ pc = "rows"
    /\ idx < total
    /\ HasColumns(df[idx + 1])
    /\ ~to_datetime(df[idx + 1].dt).raises
    /\ ~to_datetime(df[idx + 1].dt).nat
    /\ LET row == df[idx + 1]
           dt == to_datetime(row.dt)
           out == row_events([files |-> files, messages |-> messages, events |-> events],
                             row, dt, idx, total)
       IN  /\ dirs' = row_makedirs(dirs, row, dt)
           /\ files' = out.files
           /\ messages' = out.messages
           /\ events' = out.events
    /\ idx' = idx + 1
    /\ UNCHANGED <<uploaded_file, pc, df, total, zip_entries, zip_size, MAX_SIZE,
                   part_num, pos, buttons>>

---------------------------------------------------------------------------
(* Packaging: lines 114-144 *)

zip_path == path_join(temp_dir, "finance_output.zip")

part_name(n) == "finance_output_part" \o ToString(n) \o ".zip"

part_path(n) == path_join(temp_dir, part_name(n))

RECURSIVE walk_dirs(_, _, _)
RECURSIVE walk_files(_, _, _)
\* os.walk(top), top-down: the files of a directory in some listing order,
\* then its subdirectories, one after the other in some listing order.  The
\* result is the set of file sequences the walk may yield.
walk_files(paths, ds, dir) ==
    {here \o below :
        here \in Listings({p \in paths : Parent(p) = dir}),
        below \in UNION {walk_dirs(paths, ds, subdirs) :
                           subdirs \in Listings({d \in ds : Len(d) > 0 /\ Parent(d) = dir})}}

walk_dirs(paths, ds, subdirs) ==
    IF subdirs = <<>> THEN {<<>>}
    ELSE {first \o others :
            first \in walk_files(paths, ds, Head(subdirs)),
            others \in walk_dirs(paths, ds, Tail(subdirs))}

\* line 123: the entry name of a walked file
arcname(file_path) == PathText(relpath(file_path, temp_dir))

\* lines 119-123 on the tree fs, walked in the order walked: one entry per
\* walked file, with the content the file has when it is read
zip_write_all(fs, walked) ==
    [i \in DOMAIN walked |-> [arcname |-> arcname(walked[i]), data |-> fs[walked[i]]]]

\* The bytes of a stored (uncompressed) zip: per entry a local header of
\* 30 + len(name) bytes and the data, then per entry a central directory
\* record of 46 + len(name) bytes, then the 22-byte end record.
zip_bytes(entries) ==
    Flatten([i \in DOMAIN entries |->
                <<0 - (30 + Len(entries[i].arcname))>> \o entries[i].data])
    \o [i \in DOMAIN entries |-> 0 - (46 + Len(entries[i].arcname))]
    \o <<0 - 22>>

\* os.path.getsize: a byte counts 1, a run -n counts n
getsize(content) ==
    Len(content) + SumSeq([i \in DOMAIN SelectSeq(content, LAMBDA t : t < 0) |->
                             (0 - SelectSeq(content, LAMBDA t : t < 0)[i]) - 1])

\* The comparison of line 128 with < for <=.
fits_strict(size, ceiling) == size < ceiling

\* line 128
fits(size, ceiling) == size <= ceiling

\* A read that starts one byte late.
read_chunk_late(content, at, n) ==
    SubSeq(content, at + 2, IF at + n < Len(content) THEN at + n ELSE Len(content))

\* f.read(n) at offset at, on a file of plain bytes
read_chunk(content, at, n) ==
    SubSeq(content, at + 1, IF at + n < Len(content) THEN at + n ELSE Len(content))

Button(label, file_name, data) == [label |-> label, file_name |-> file_name, data |-> data]

\* lines 114-126, reached when the loop of line 84 is exhausted
BuildZip ==
    /\ pc = "rows"
    /\ idx = total
    /\ LET created == open_wb(files, zip_path)
       IN  \E walked \in walk_files(DOMAIN created, dirs, temp_dir) :
              LET entries == zip_write_all(created, walked)
                  closed == [created EXCEPT ![zip_path] = zip_bytes(entries)]
              IN  /\ zip_entries' = entries
                  /\ files' = closed
                  /\ zip_size' = getsize(closed[zip_path])
    /\ messages' = Append(messages, Msg("success", "Processing Completed!"))
    /\ pc' = "zipped"
    /\ UNCHANGED <<uploaded_file, df, total, idx, dirs, events, MAX_SIZE, part_num,
                   pos, buttons>>

\* lines 128-130
OfferSingle ==
    /\ pc = "zipped"
    /\ fits(zip_size, MAX_SIZE)
    /\ buttons' = Append(buttons,
          Button("Download ZIP File", "finance_output.zip", files[zip_path]))
    /\ pc' = "done"
    /\ UNCHANGED <<uploaded_file, df, total, idx, dirs, files, messages, events,
                   zip_entries, zip_size, MAX_SIZE, part_num, pos>>

\* f"{size / (1024*1024):.2f}": the size in MiB to two decimals, rounded to
\* nearest, a tie to the even digit (the quotient is an exact binary float)
mb_2f(size) ==
    LET whole == size \div (1024 * 1024)
        n == (size % (1024 * 1024)) * 100
        q == n \div (1024 * 1024)
        r == n % (1024 * 1024)
        up == 2 * r > 1024 * 1024 \/ (2 * r = 1024 * 1024 /\ q % 2 = 1)
        h == IF up THEN q + 1 ELSE q
    IN  ToString(whole + h \div 100) \o "." \o Pad2(h % 100)

\* lines 131-134
StartSplit ==
    /\ pc = "zipped"
    /\ ~fits(zip_size, MAX_SIZE)
    /\ messages' = Append(messages, Msg("info",
          "Total ZIP size " \o mb_2f(zip_size) \o " MB. Splitting into parts..."))
    /\ part_num' = 1
    /\ pos' = 0
    /\ pc' = "split"
    /\ UNCHANGED <<uploaded_file, df, total, idx, dirs, files, events, zip_entries,
                   zip_size, MAX_SIZE, buttons>>

\* lines 136, 139-144: one part
SplitChunk ==
    /\ pc = "split"
    /\ LET chunk == read_chunk(files[zip_path], pos, MAX_SIZE)
       IN  /\ chunk # <<>>
           /\ files' = (part_path(part_num) :> chunk) @@ files
           /\ buttons' = Append(buttons,
                 Button("Download ZIP Part " \o ToString(part_num),
                        part_name(part_num), chunk))
           /\ pos' = pos + Len(chunk)
    /\ part_num' = part_num + 1
    /\ UNCHANGED <<uploaded_file, pc, df, total, idx, dirs, messages, events,
                   zip_entries, zip_size, MAX_SIZE>>

\* lines 136-138: the read at the end of the file gives nothing
SplitEnd ==
    /\ pc = "split"
    /\ read_chunk(files[zip_path], pos, MAX_SIZE) = <<>>
    /\ pc' = "done"
    /\ UNCHANGED <<uploaded_file, df, total, idx, dirs, files, messages, events,
                   zip_entries, zip_size, MAX_SIZE, part_num, pos, buttons>>

---------------------------------------------------------------------------
(* The run from the button click.  With MAX_SIZE at 23 MiB no explored tree *)
(* takes the else branch of line 131; that branch is explored by SplitSpec. *)

Next ==
    \/ StartNoUpload
    \/ StartMissingColumn
    \/ StartRun
    \/ RowRaises
    \/ RowDateNaT
    \/ ProcessRow
    \/ BuildZip
    \/ OfferSingle

Spec == Init /\ [][Next]_vars

---------------------------------------------------------------------------
(* The packaging stage from line 125 on, for any zip content and ceiling.   *)

ByteVals == {0, 255}

Archives ==
    UNION {[1..k -> ByteVals] : k \in 0..MaxArchiveLen}

SplitInputs ==
    (Archives \X (1..MaxCeiling))
    \cup {<<[i \in 1..2500 |-> i % 256], 1000>>}

InitSplit ==
    /\ \E inp \in SplitInputs :
          /\ files = (zip_path :> inp[1])
          /\ zip_size = getsize(inp[1])
          /\ MAX_SIZE = inp[2]
    /\ uploaded_file = CsvFile(HeaderUpper, <<>>)
    /\ pc = "zipped"
    /\ df = <<>>
    /\ total = 0
    /\ idx = 0
    /\ dirs = {temp_dir}
    /\ messages = <<Msg("success", "Processing Completed!")>>
    /\ events = <<>>
    /\ zip_entries = <<>>
    /\ part_num = 0
    /\ pos = 0
    /\ buttons = <<>>

NextSplit ==
    \/ OfferSingle
    \/ StartSplit
    \/ SplitChunk
    \/ SplitEnd

SplitSpec == InitSplit /\ [][NextSplit]_vars

---------------------------------------------------------------------------
(* What the claims speak of *)

\* The path the specification derives for (record_id, category, date), below
\* the working root, written out for the explored record ids and dates.
RidText(row) ==
    CASE row.restaurant_id = 42 -> "42"
      [] row.restaurant_id = 7 -> "7"

YearText(row) ==
    CASE row.dt = DtCell(2024, 3, 1) -> "2024"
      [] row.dt = DtCell(2023, 12, 25) -> "2023"

DateText(row) ==
    CASE row.dt = DtCell(2024, 3, 1) -> "2024_03_01"
      [] row.dt = DtCell(2023, 12, 25) -> "2023_12_25"

DerivedPath(row, cat) ==
    CASE cat = "invoice_url" ->
            <<"RID_" \o RidText(row), YearText(row), "Invoices",
              "Invoice_" \o DateText(row) \o ".pdf">>
      [] cat = "payment_advice_url" ->
            <<"RID_" \o RidText(row), YearText(row), "Payment_Advices",
              "Payment_Advice_" \o DateText(row) \o ".pdf">>
      [] cat = "annexure_url" ->
            <<"RID_" \o RidText(row), YearText(row), "Annexures",
              "Annexure_" \o DateText(row) \o ".xlsx">>

\* The date of the row is a calendar date.
DateParses(row) == row.dt \in {DtCell(2024, 3, 1), DtCell(2023, 12, 25)}

\* The (row, category) items of row k that have a URL, in category order.
ItemsOf(k) ==
    LET cats == SelectSeq(Categories, LAMBDA c : df[k][c] # "NaN")
    IN  [j \in DOMAIN cats |->
            [row |-> k, cat |-> cats[j], url |-> df[k][cats[j]],
             path |-> DerivedPath(df[k], cats[j])]]

\* The items of rows 1..n, in manifest order.
ItemsUpTo(n) == Flatten([k \in 1..n |-> ItemsOf(k)])

Gets == SelectSeq(events, LAMBDA e : e.kind = "get")

Progresses == SelectSeq(events, LAMBDA e : e.kind = "progress")

\* The texts of the errors that reject the input (lines 67, 77).
InputErrorTexts ==
    {"Please upload a CSV file."}
    \cup {"CSV is missing required column: " \o c : c \in Range(required_cols)}

\* The failures reported for retrievals (lines 54, 57).
Failures ==
    SelectSeq(messages,
        LAMBDA m : m.level \in {"error", "warning"} /\ m.text \notin InputErrorTexts)

\* The document files in the working tree, as paths below the root.
StoredDocs ==
    {SubSeq(p, 2, Len(p)) : p \in {q \in DOMAIN files : Len(q) > 2 /\ q[1] = "tmp"}}

Packaged == pc \in {"zipped", "done"}

PartFile(i) == <<"tmp", "finance_output_part" \o ToString(i) \o ".zip">>

ZipFile == <<"tmp", "finance_output.zip">>

PartButtons == SelectSeq(buttons, LAMBDA b : b.file_name # "finance_output.zip")

---------------------------------------------------------------------------
(* C1 *)

\* The part files on disk, joined in ascending part number.
Reassembled(n) == Flatten([i \in 1..n |-> files[PartFile(i)]])

\* C1: whenever parts are emitted, part i is the file finance_output_part<i>.zip,
\* no part is empty, the parts emitted so far joined in ascending number are the
\* bytes of finance_output.zip read so far, and once the split has ended they are
\* the whole of finance_output.zip, byte for byte.
C1_SplitRoundTrip ==
    LET n == Len(PartButtons)
    IN  /\ \A i \in 1..n :
              /\ PartButtons[i].file_name = "finance_output_part" \o ToString(i) \o ".zip"
              /\ PartFile(i) \in DOMAIN files
              /\ files[PartFile(i)] = PartButtons[i].data
              /\ Len(files[PartFile(i)]) > 0
        /\ pc = "split" => Reassembled(n) = SubSeq(files[ZipFile], 1, Len(Reassembled(n)))
        /\ (pc = "done" /\ n > 0) =>
              /\ Len(Reassembled(n)) = Len(files[ZipFile])
              /\ \A o \in 1..Len(files[ZipFile]) : Reassembled(n)[o] = files[ZipFile][o]

\* A finished split into at least two parts whose last part is a remainder.
C1_Witness ==
    /\ pc = "done"
    /\ Len(PartButtons) >= 2
    /\ Len(PartButtons[Len(PartButtons)].data) < MAX_SIZE
    /\ Reassembled(Len(PartButtons)) = files[ZipFile]

---------------------------------------------------------------------------
(* C2 *)

PartSizes == [i \in DOMAIN PartButtons |-> Len(PartButtons[i].data)]

\* C2: with S the size of the zip and C the ceiling, a finished run offers the
\* zip alone and writes no part file when S <= C, and otherwise offers
\* ceil(S/C) parts, numbered 1..n in stream order, each of C bytes but the last,
\* which holds the remaining 1..C bytes.  S = C gives one artifact, S = C + 1
\* two parts with 1 byte in the second, S = 2500 and C = 1000 parts of 1000,
\* 1000 and 500 bytes.
C2_ArtifactCountAndSizes ==
    pc = "done" =>
        LET S == Len(files[ZipFile])
            C == MAX_SIZE
            n == (S + C - 1) \div C
        IN  /\ zip_size = S
            /\ S <= C =>
                  /\ buttons = <<[label |-> "Download ZIP File",
                                  file_name |-> "finance_output.zip",
                                  data |-> files[ZipFile]]>>
                  /\ DOMAIN files = {ZipFile}
            /\ S > C =>
                  /\ Len(buttons) = n
                  /\ PartButtons = buttons
                  /\ \A i \in 1..n :
                        /\ buttons[i].file_name = "finance_output_part" \o ToString(i) \o ".zip"
                        /\ buttons[i].label = "Download ZIP Part " \o ToString(i)
                        /\ i < n => PartSizes[i] = C
                  /\ PartSizes[n] = S - (n - 1) * C
                  /\ PartSizes[n] \in 1..C
                  /\ DOMAIN files = {ZipFile} \cup {PartFile(i) : i \in 1..n}
            /\ S = C => Len(buttons) = 1 /\ PartButtons = <<>>
            /\ S = C + 1 => PartSizes = <<C, 1>>
            /\ (S = 2500 /\ C = 1000) => PartSizes = <<1000, 1000, 500>>

\* The 2500-byte zip under a ceiling of 1000 bytes, split.
C2_Witness ==
    /\ pc = "done"
    /\ Len(files[ZipFile]) = 2500
    /\ MAX_SIZE = 1000
    /\ PartSizes = <<1000, 1000, 500>>

---------------------------------------------------------------------------
(* C3 *)

\* C3: no failed item (non-200 status, no connection, or a transfer broken
\* after some chunks) of a processed row has a file at its derived path.
C3_NoFileOfFailedItem ==
    \A i \in DOMAIN ItemsUpTo(idx) :
        ~Succeeds(ItemsUpTo(idx)[i].url) => ItemsUpTo(idx)[i].path \notin StoredDocs

---------------------------------------------------------------------------
(* C4 *)

\* C4: when the run reaches packaging, each of the N items with a URL was
\* attempted, the K failed ones are reported, and N - K document files exist.
C4_PartialFailureTolerance ==
    Packaged =>
        LET items == ItemsUpTo(total)
            N == Len(items)
            K == Len(SelectSeq(items, LAMBDA it : ~Succeeds(it.url)))
        IN  /\ [i \in DOMAIN Gets |-> Gets[i].url] = [i \in DOMAIN items |-> items[i].url]
            /\ Len(Failures) = K
            /\ Cardinality(StoredDocs) = N - K

---------------------------------------------------------------------------
(* C5 *)

\* C5: the entries of the archive are exactly the document files under the
\* working root, named by their path below it; with no document file the
\* archive has no entry and one artifact is offered.
C5_ArchiveEntrySet ==
    Packaged =>
        /\ {zip_entries[i].arcname : i \in DOMAIN zip_entries}
              = {PathText(d) : d \in StoredDocs}
        /\ Len(zip_entries) = Cardinality(StoredDocs)
        /\ (StoredDocs = {} /\ pc = "done") => (zip_entries = <<>> /\ Len(buttons) = 1)

---------------------------------------------------------------------------
(* C6 *)

Spellings(c) ==
    CASE c = "restaurant_id" -> {"RESTAURANT_ID", "Restaurant_Id", "restaurant_id"}
      [] c = "invoice_url" -> {"INVOICE_URL", "Invoice_Url", "invoice_url"}
      [] c = "payment_advice_url" ->
            {"PAYMENT_ADVICE_URL", "Payment_Advice_Url", "payment_advice_url"}
      [] c = "annexure_url" -> {"ANNEXURE_URL", "Annexure_Url", "annexure_url"}
      [] c = "dt" -> {"DT", "Dt", "dt"}

\* The required columns the uploaded file has under no spelling.
Lacking == {c \in Range(required_cols) : uploaded_file.columns \cap Spellings(c) = {}}

MissingColumnErrors ==
    SelectSeq(messages, LAMBDA m : m.text \in InputErrorTexts \ {"Please upload a CSV file."})

\* C6: a manifest that lacks a required column (under every spelling) is
\* rejected once the run starts, with one error that names a column it lacks,
\* before any retrieval, directory or file, and nothing is ever packaged; a
\* manifest that has every column under some spelling is not rejected.
C6_MissingColumnRejected ==
    (uploaded_file.present /\ pc # "idle") =>
        /\ Lacking # {} =>
              /\ pc = "stopped"
              /\ \E c \in Lacking :
                    messages = <<[level |-> "error",
                                  text |-> "CSV is missing required column: " \o c]>>
              /\ events = <<>>
              /\ dirs = {}
              /\ files = <<>>
              /\ zip_entries = <<>>
              /\ buttons = <<>>
        /\ Lacking = {} => (pc # "stopped" /\ MissingColumnErrors = <<>>)

\* A one-row manifest with a URL and no date column, rejected.
C6_Witness ==
    /\ pc = "stopped"
    /\ Lacking = {"dt"}
    /\ Len(uploaded_file.rows) = 1
    /\ uploaded_file.rows[1]["INVOICE_URL"] = UrlOkA
    /\ messages = <<[level |-> "error", text |-> "CSV is missing required column: dt"]>>

---------------------------------------------------------------------------
(* C7 *)

\* C7: the run never ends at a row because its date does not parse: such a
\* row is passed over and the rows after it are processed.
C7_BadDateRowDoesNotHalt ==
    ~(pc = "crashed" /\ idx < total /\ ~DateParses(df[idx + 1]))

---------------------------------------------------------------------------
(* C8 *)

\* Positions in events of the progress updates.
ProgressAt ==
    SelectSeq([j \in 1..Len(events) |-> j], LAMBDA j : events[j].kind = "progress")

\* The events between the update of row k - 1 and the update of row k.
BeforeUpdate(k) ==
    SubSeq(events, IF k = 1 THEN 1 ELSE ProgressAt[k - 1] + 1, ProgressAt[k] - 1)

\* C8: there is one progress update per finished row, made after the
\* retrievals of that row and before those of the next; the reported
\* fractions increase strictly, never exceed 1 and end at total/total after
\* the last row; a manifest of zero rows gives no update.
C8_ProgressOncePerRow ==
    /\ idx <= total
    /\ Len(Progresses) = idx
    /\ \A k \in 1..Len(Progresses) :
          /\ Progresses[k].den > 0
          /\ Progresses[k].num <= Progresses[k].den
          /\ k > 1 => Progresses[k - 1].num * Progresses[k].den
                         < Progresses[k].num * Progresses[k - 1].den
          /\ [j \in DOMAIN BeforeUpdate(k) |-> BeforeUpdate(k)[j].url]
                = [j \in DOMAIN ItemsOf(k) |-> ItemsOf(k)[j].url]
    /\ events # <<>> => events[Len(events)].kind = "progress"
    /\ Packaged =>
          /\ Len(Progresses) = total
          /\ total > 0 => Progresses[total].num = Progresses[total].den
    /\ total = 0 => events = <<>>

\* A finished two-row run in which each row had a retrieval, one of them failed.
C8_Witness ==
    /\ pc = "done"
    /\ total = 2
    /\ Len(Progresses) = 2
    /\ Len(BeforeUpdate(1)) > 0
    /\ Len(BeforeUpdate(2)) > 0
    /\ Len(Failures) > 0
    /\ Progresses[1].num = 1
    /\ Progresses[2].num = 2

---------------------------------------------------------------------------
(* C9 *)

\* C9: the retrievals made are those of the items that have a URL, in
\* manifest order, each aimed at the derived path of its item under the
\* working root; every successful one has its file there, and every document
\* file lies at the derived path of an item that has a URL.
C9_StoredPathIsDerivedPath ==
    LET items == ItemsUpTo(idx)
    IN  /\ Len(Gets) = Len(items)
        /\ \A i \in DOMAIN items :
              /\ Gets[i].url = items[i].url
              /\ Gets[i].path = <<"tmp">> \o items[i].path
              /\ Succeeds(items[i].url) => items[i].path \in StoredDocs
        /\ StoredDocs \subseteq {items[i].path : i \in DOMAIN items}

\* The invoice of record 42 dated 2024-03-01 stored, its payment advice absent.
C9_Witness ==
    /\ pc = "done"
    /\ total = 1
    /\ df[1].restaurant_id = 42
    /\ df[1].payment_advice_url = "NaN"
    /\ <<"RID_42", "2024", "Invoices", "Invoice_2024_03_01.pdf">> \in StoredDocs
    /\ \E i \in DOMAIN zip_entries :
          zip_entries[i].arcname = "RID_42/2024/Invoices/Invoice_2024_03_01.pdf"
    /\ ~\E d \in StoredDocs : d[3] = "Payment_Advices"

---------------------------------------------------------------------------
(* C10 *)

\* The items of the processed rows that derive the path d.
ItemsAt(d) == SelectSeq(ItemsUpTo(idx), LAMBDA it : it.path = d)

\* C10: when every retrieval for a derived path succeeded, the file at that
\* path holds exactly the body retrieved for the last such row; no failure is
\* reported beyond the failed retrievals; the archive has one entry for the
\* path.
C10_LastWriteWins ==
    /\ \A i \in DOMAIN ItemsUpTo(idx) :
          LET d == ItemsUpTo(idx)[i].path
              same == ItemsAt(d)
          IN  (\A j \in DOMAIN same : Succeeds(same[j].url)) =>
                  /\ d \in StoredDocs
                  /\ files[<<"tmp">> \o d] = Flatten(Server(same[Len(same)].url).chunks)
                  /\ Packaged =>
                        Cardinality({e \in DOMAIN zip_entries :
                                        zip_entries[e].arcname = PathText(d)}) = 1
    /\ Len(Failures)
          = Len(SelectSeq(ItemsUpTo(idx), LAMBDA it : ~Succeeds(it.url)))

\* Two rows for the same record and date, the first invoice two bytes long,
\* the second one byte long, both retrieved.
C10_Witness ==
    /\ pc = "done"
    /\ total = 2
    /\ df[1].restaurant_id = df[2].restaurant_id
    /\ df[1].dt = df[2].dt
    /\ df[1].invoice_url = UrlOkA
    /\ df[2].invoice_url = UrlOkB
    /\ files[<<"tmp">> \o DerivedPath(df[2], "invoice_url")] = <<21>>
    /\ Failures = <<>>

====
